---- MODULE Spec2Model ----
(***************************************************************************)
(* Model of allele_count_graph.py: the script reads a dataset (the         *)
(* built-in example or a JSON file), groups it by genotype, draws two      *)
(* scatter series per genotype joined by one segment per sample, sets the  *)
(* y-axis limits and optionally saves the figure.                          *)
(*                                                                         *)
(* A dataset (a Python dict, iterated in insertion order) is a sequence of *)
(* records; the field `sample` is the position of the key in the dict and  *)
(* stands for the identity of the record object.  x coordinates are kept   *)
(* in half units (the stored value is twice the plotted x), so that        *)
(* i * GENOTYPE_SPACING - 0.5 is the integer 2 * i * GENOTYPE_SPACING - 1. *)
(* An unbound Python name is the empty sequence <<>>, a bound one <<v>>.   *)
(***************************************************************************)
EXTENDS Integers, Sequences, FiniteSets, TLC

\* ------------------------------------------------------------------ bounds
MaxSamples == 2
MaxCount == 2
CountStep == 11

\* ------------------------------------------------------- module constants
GENOTYPES == <<"hom_ref", "het", "hom_alt">>

GENOTYPE_SPACING == 2

GENOTYPE_COLOURS ==
    ("hom_ref" :> "blue") @@ ("het" :> "orange") @@ ("hom_alt" :> "red")

GENOTYPE_LABELS ==
    ("hom_ref" :> "Homozygous\nreference") @@ ("het" :> "Heterozygous")
        @@ ("hom_alt" :> "Homozygous\nalternate")

ALLELE_MARKERS == ("allele_1" :> "o") @@ ("allele_2" :> "x")

\* Keys of ALLELE_MARKERS in insertion order, as .values() walks them.
ALLELE_MARKER_KEYS == <<"allele_1", "allele_2">>

EXAMPLE_DATA ==
    << [sample |-> 1, genotype |-> "hom_ref", allele_1_count |-> 2,  allele_2_count |-> 4],
       [sample |-> 2, genotype |-> "hom_ref", allele_1_count |-> 3,  allele_2_count |-> 6],
       [sample |-> 3, genotype |-> "het",     allele_1_count |-> 4,  allele_2_count |-> 40],
       [sample |-> 4, genotype |-> "het",     allele_1_count |-> 5,  allele_2_count |-> 39],
       [sample |-> 5, genotype |-> "hom_alt", allele_1_count |-> 60, allele_2_count |-> 54],
       [sample |-> 6, genotype |-> "hom_alt", allele_1_count |-> 58, allele_2_count |-> 62] >>

YLIM_PADDING == 10

\* ------------------------------------------------------------------ inputs
\* Genotype strings a JSON file may carry: the three recognised ones and one
\* that is not recognised.
GenotypeStrings == {"hom_ref", "het", "hom_alt", "unknown"}

CountValues == {CountStep * k : k \in 0..MaxCount}

RecordBodies ==
    [genotype : GenotypeStrings, allele_1_count : CountValues, allele_2_count : CountValues]

Datasets ==
    UNION { { [k \in 1..n |-> [sample |-> k,
                               genotype |-> f[k].genotype,
                               allele_1_count |-> f[k].allele_1_count,
                               allele_2_count |-> f[k].allele_2_count]]
              : f \in [1..n -> RecordBodies] }
            : n \in 0..MaxSamples }

\* ------------------------------------------------------------------- state
VARIABLES
    pc,                \* position of the script
    file_exists,       \* whether the file named by --input-json can be opened
    file_content,      \* the dataset stored in that file
    input_json,        \* args.input_json: "None" or "path"
    save_plot,         \* args.save_plot
    opened,            \* whether read_data opened a file
    heap,              \* dataset objects: "EXAMPLE_DATA" and, once loaded, "json"
    allele_counts,     \* reference into heap held by the script ("None" when unbound)
    figure,            \* plt.figure was called
    data_by_genotype,  \* genotype -> bucket, <<>> while unbound
    i,                 \* index of the per-genotype loop
    scatters,          \* plt.scatter calls so far, in call order
    lines,             \* plt.plot calls so far, in call order
    legend,            \* labels given to plt.legend, <<>> before the call
    max_value,         \* <<>> while unbound, <<v>> after line 119
    ylim,              \* <<>> until plt.ylim, then <<lower, upper>>
    texts,             \* plt.text calls
    styled,            \* the cosmetic calls of lines 135-151 ran
    returned,          \* create_plot returned normally
    saved,             \* allele_count_graph.png was written
    error,             \* "None" or the exception that ended the script
    failed_at          \* "None" or the step that raised

vars == <<pc, file_exists, file_content, input_json, save_plot, opened, heap,
          allele_counts, figure, data_by_genotype, i, scatters, lines, legend,
          max_value, ylim, texts, styled, returned, saved, error, failed_at>>

\* The dataset create_plot was called with.
counts == heap[allele_counts]

\* --------------------------------------------------------- pure functions
\* d[k] on a dict: <<value>>, or <<>> for KeyError.
GetItem(d, k) == IF k \in DOMAIN d THEN <<d[k]>> ELSE <<>>

\* Variant of Bucket: matching samples are collected in reverse dataset order.
RECURSIVE Bucket_reversed(_, _)
Bucket_reversed(c, genotype) ==
    IF c = <<>> THEN <<>>
    ELSE IF Head(c).genotype = genotype
         THEN Bucket_reversed(Tail(c), genotype) \o <<Head(c)>>
         ELSE Bucket_reversed(Tail(c), genotype)

\* [counts[sample] for sample in counts if counts[sample]["genotype"] == genotype]
RECURSIVE Bucket(_, _)
Bucket(c, genotype) ==
    IF c = <<>> THEN <<>>
    ELSE IF Head(c).genotype = genotype
         THEN <<Head(c)>> \o Bucket(Tail(c), genotype)
         ELSE Bucket(Tail(c), genotype)

\* Variant of GroupByGenotype: the comparison is != instead of ==.
GroupByGenotype_neq(c) ==
    [genotype \in {GENOTYPES[k] : k \in 1..Len(GENOTYPES)} |->
        SelectSeq(c, LAMBDA r : r.genotype # genotype)]

\* Variant of GroupByGenotype: a sample of no recognised genotype falls into
\* the last bucket.
GroupByGenotype_fallback(c) ==
    [genotype \in {GENOTYPES[k] : k \in 1..Len(GENOTYPES)} |->
        SelectSeq(c, LAMBDA r :
            \/ r.genotype = genotype
            \/ /\ genotype = GENOTYPES[Len(GENOTYPES)]
               /\ r.genotype \notin {GENOTYPES[k] : k \in 1..Len(GENOTYPES)})]

\* {genotype: [...] for genotype in GENOTYPES}
GroupByGenotype(c) ==
    [genotype \in {GENOTYPES[k] : k \in 1..Len(GENOTYPES)} |-> Bucket(c, genotype)]

\* [i * GENOTYPE_SPACING - 0.5] * len(data), in half units
X1(idx, data) == [k \in 1..Len(data) |-> 2 * idx * GENOTYPE_SPACING - 1]

\* [i * GENOTYPE_SPACING + 0.5] * len(data), in half units
X2(idx, data) == [k \in 1..Len(data) |-> 2 * idx * GENOTYPE_SPACING + 1]

Y1(data) == [k \in 1..Len(data) |-> data[k].allele_1_count]

\* Variant of Y2: the allele-2 counts are listed in reverse bucket order.
Y2_reversed(data) == [k \in 1..Len(data) |-> data[Len(data) + 1 - k].allele_2_count]

Y2(data) == [k \in 1..Len(data) |-> data[k].allele_2_count]

\* zip(x_1, x_2, y_1, y_2) stops at the shortest of its arguments.
Min4(a, b, c, d) ==
    CHOOSE m \in {a, b, c, d} : \A n \in {a, b, c, d} : m <= n

\* Python's list comparison a > b on two-element lists.
ListGreater(a, b) == a[1] > b[1] \/ (a[1] = b[1] /\ a[2] > b[2])

\* max(iterable of lists): the first greatest element under list comparison.
RECURSIVE MaxOfLists(_, _)
MaxOfLists(best, rest) ==
    IF rest = <<>> THEN best
    ELSE MaxOfLists(IF ListGreater(Head(rest), best) THEN Head(rest) ELSE best,
                    Tail(rest))

\* max(a, b) on two integers.
Max2(a, b) == IF b > a THEN b ELSE a

\* Variant of MaxValue: max() with default=0 on an empty dataset.
MaxValue_default(c) ==
    IF c = <<>> THEN <<0>>
    ELSE LET pairs == [k \in 1..Len(c) |-> <<c[k].allele_1_count, c[k].allele_2_count>>]
             top == MaxOfLists(Head(pairs), Tail(pairs))
         IN  <<Max2(top[1], top[2])>>

\* max(*[max([s["allele_1_count"], s["allele_2_count"]] for s in counts.values())])
\* <<>> is the ValueError of max() on an empty sequence.
MaxValue(c) ==
    IF c = <<>> THEN <<>>
    ELSE LET pairs == [k \in 1..Len(c) |-> <<c[k].allele_1_count, c[k].allele_2_count>>]
             top == MaxOfLists(Head(pairs), Tail(pairs))
         IN  <<Max2(top[1], top[2])>>

\* ----------------------------------------------------------------- actions
Init ==
    /\ pc = "parse_args"
    /\ \/ file_exists = FALSE /\ file_content = <<>>
       \/ file_exists = TRUE /\ file_content \in Datasets
    /\ input_json = "None"
    /\ save_plot = FALSE
    /\ opened = FALSE
    /\ heap = ("EXAMPLE_DATA" :> EXAMPLE_DATA)
    /\ allele_counts = "None"
    /\ figure = FALSE
    /\ data_by_genotype = <<>>
    /\ i = 0
    /\ scatters = <<>>
    /\ lines = <<>>
    /\ legend = <<>>
    /\ max_value = <<>>
    /\ ylim = <<>>
    /\ texts = <<>>
    /\ styled = FALSE
    /\ returned = FALSE
    /\ saved = FALSE
    /\ error = "None"
    /\ failed_at = "None"

\* An uncaught exception ends the script.
Raise(step, exception) ==
    /\ pc' = "failed"
    /\ error' = exception
    /\ failed_at' = step

\* args = parse_args()
parse_args ==
    /\ pc = "parse_args"
    /\ input_json' \in {"None", "path"}
    /\ save_plot' \in BOOLEAN
    /\ pc' = "read_data"
    /\ UNCHANGED <<file_exists, file_content, opened, heap, allele_counts, figure,
                   data_by_genotype, i, scatters, lines, legend, max_value, ylim,
                   texts, styled, returned, saved, error, failed_at>>

\* Variant of read_data: the path is ignored and the example returned.
read_data_ignores_path ==
    /\ pc = "read_data"
    /\ allele_counts' = "EXAMPLE_DATA"
    /\ pc' = "figure"
    /\ UNCHANGED <<file_exists, file_content, input_json, save_plot, opened, heap,
                   figure, data_by_genotype, i, scatters, lines, legend, max_value,
                   ylim, texts, styled, returned, saved, error, failed_at>>

\* allele_counts = read_data(args.input_json)
read_data ==
    /\ pc = "read_data"
    /\ IF input_json = "None"
       THEN /\ allele_counts' = "EXAMPLE_DATA"
            /\ pc' = "figure"
            /\ UNCHANGED <<opened, heap, error, failed_at>>
       ELSE IF file_exists
            THEN /\ opened' = TRUE
                 /\ heap' = heap @@ ("json" :> file_content)
                 /\ allele_counts' = "json"
                 /\ pc' = "figure"
                 /\ UNCHANGED <<error, failed_at>>
            ELSE /\ Raise("read_data", "FileNotFoundError")
                 /\ UNCHANGED <<opened, heap, allele_counts>>
    /\ UNCHANGED <<file_exists, file_content, input_json, save_plot, figure,
                   data_by_genotype, i, scatters, lines, legend, max_value, ylim,
                   texts, styled, returned, saved>>

\* create_plot: plt.figure(figsize=(10, 10))
create_figure ==
    /\ pc = "figure"
    /\ figure' = TRUE
    /\ pc' = "group"
    /\ UNCHANGED <<file_exists, file_content, input_json, save_plot, opened, heap,
                   allele_counts, data_by_genotype, i, scatters, lines, legend,
                   max_value, ylim, texts, styled, returned, saved, error, failed_at>>

\* Variant of group_by_genotype: grouping pops the samples off the dataset.
group_by_genotype_pop ==
    /\ pc = "group"
    /\ data_by_genotype' = GroupByGenotype(counts)
    /\ heap' = [heap EXCEPT ![allele_counts] = <<>>]
    /\ pc' = "loop"
    /\ UNCHANGED <<file_exists, file_content, input_json, save_plot, opened,
                   allele_counts, figure, i, scatters, lines, legend, max_value,
                   ylim, texts, styled, returned, saved, error, failed_at>>

\* create_plot: data_by_genotype = {...}
group_by_genotype ==
    /\ pc = "group"
    /\ data_by_genotype' = GroupByGenotype(counts)
    /\ pc' = "loop"
    /\ UNCHANGED <<file_exists, file_content, input_json, save_plot, opened, heap,
                   allele_counts, figure, i, scatters, lines, legend, max_value,
                   ylim, texts, styled, returned, saved, error, failed_at>>

\* create_plot: one iteration of `for i, genotype in enumerate(GENOTYPES)`
plot_genotype ==
    /\ pc = "loop"
    /\ LET genotype == GENOTYPES[i + 1]
           data == data_by_genotype[genotype]
           colour == GetItem(GENOTYPE_COLOURS, genotype)
           x_1 == X1(i, data)
           x_2 == X2(i, data)
           y_1 == Y1(data)
           y_2 == Y2(data)
           n == Min4(Len(x_1), Len(x_2), Len(y_1), Len(y_2))
       IN IF colour = <<>>
          THEN /\ Raise("colour_lookup", "KeyError")
               /\ UNCHANGED <<i, scatters, lines>>
          ELSE /\ scatters' = scatters \o
                     << [x |-> x_1, y |-> y_1, color |-> colour[1],
                         marker |-> ALLELE_MARKERS["allele_1"]],
                        [x |-> x_2, y |-> y_2, color |-> colour[1],
                         marker |-> ALLELE_MARKERS["allele_2"]] >>
               /\ lines' = lines \o
                     [k \in 1..n |-> [x |-> <<x_1[k], x_2[k]>>,
                                      y |-> <<y_1[k], y_2[k]>>,
                                      color |-> colour[1]]]
               /\ i' = i + 1
               /\ pc' = IF i + 1 = Len(GENOTYPES) THEN "legend" ELSE "loop"
               /\ UNCHANGED <<error, failed_at>>
    /\ UNCHANGED <<file_exists, file_content, input_json, save_plot, opened, heap,
                   allele_counts, figure, data_by_genotype, legend, max_value, ylim,
                   texts, styled, returned, saved>>

\* create_plot: plt.legend([plt.scatter([], [], ...) for marker in ...], [...])
add_legend ==
    /\ pc = "legend"
    /\ scatters' = scatters \o
           [k \in 1..Len(ALLELE_MARKER_KEYS) |->
               [x |-> <<>>, y |-> <<>>, color |-> "black",
                marker |-> ALLELE_MARKERS[ALLELE_MARKER_KEYS[k]]]]
    /\ legend' = <<"Allele 1", "Allele 2">>
    /\ pc' = "max"
    /\ UNCHANGED <<file_exists, file_content, input_json, save_plot, opened, heap,
                   allele_counts, figure, data_by_genotype, i, lines, max_value,
                   ylim, texts, styled, returned, saved, error, failed_at>>

\* create_plot: max_value = max(*[max(... for sample in counts.values())])
find_max_value ==
    /\ pc = "max"
    /\ IF MaxValue(counts) = <<>>
       THEN /\ Raise("max", "ValueError")
            /\ UNCHANGED max_value
       ELSE /\ max_value' = MaxValue(counts)
            /\ pc' = "ylim"
            /\ UNCHANGED <<error, failed_at>>
    /\ UNCHANGED <<file_exists, file_content, input_json, save_plot, opened, heap,
                   allele_counts, figure, data_by_genotype, i, scatters, lines,
                   legend, ylim, texts, styled, returned, saved>>

\* create_plot: plt.ylim(0, max_value + 10)
set_ylim ==
    /\ pc = "ylim"
    /\ ylim' = <<0, max_value[1] + YLIM_PADDING>>
    /\ pc' = "labels"
    /\ UNCHANGED <<file_exists, file_content, input_json, save_plot, opened, heap,
                   allele_counts, figure, data_by_genotype, i, scatters, lines,
                   legend, max_value, texts, styled, returned, saved, error,
                   failed_at>>

\* create_plot: the plt.text loop over GENOTYPES (x in half units)
add_genotype_labels ==
    /\ pc = "labels"
    /\ texts' = [k \in 1..Len(GENOTYPES) |->
                    [x |-> 2 * (k - 1) * GENOTYPE_SPACING, y |-> -1,
                     s |-> GENOTYPE_LABELS[GENOTYPES[k]],
                     color |-> GENOTYPE_COLOURS[GENOTYPES[k]]]]
    /\ pc' = "style"
    /\ UNCHANGED <<file_exists, file_content, input_json, save_plot, opened, heap,
                   allele_counts, figure, data_by_genotype, i, scatters, lines,
                   legend, max_value, ylim, styled, returned, saved, error,
                   failed_at>>

\* create_plot: axis labels, title, ticks, spines, face colour, grid; return
make_pretty ==
    /\ pc = "style"
    /\ styled' = TRUE
    /\ returned' = TRUE
    /\ pc' = "savefig"
    /\ UNCHANGED <<file_exists, file_content, input_json, save_plot, opened, heap,
                   allele_counts, figure, data_by_genotype, i, scatters, lines,
                   legend, max_value, ylim, texts, saved, error, failed_at>>

\* Variant of savefig: the figure is saved whatever the flag.
savefig_always ==
    /\ pc = "savefig"
    /\ saved' = TRUE
    /\ pc' = "done"
    /\ UNCHANGED <<file_exists, file_content, input_json, save_plot, opened, heap,
                   allele_counts, figure, data_by_genotype, i, scatters, lines,
                   legend, max_value, ylim, texts, styled, returned, error,
                   failed_at>>

\* if args.save_plot: plt.savefig("allele_count_graph.png", dpi=300)
savefig ==
    /\ pc = "savefig"
    /\ saved' = save_plot
    /\ pc' = "done"
    /\ UNCHANGED <<file_exists, file_content, input_json, save_plot, opened, heap,
                   allele_counts, figure, data_by_genotype, i, scatters, lines,
                   legend, max_value, ylim, texts, styled, returned, error,
                   failed_at>>

Next ==
    \/ parse_args
    \/ read_data
    \/ create_figure
    \/ group_by_genotype
    \/ plot_genotype
    \/ add_legend
    \/ find_max_value
    \/ set_ylim
    \/ add_genotype_labels
    \/ make_pretty
    \/ savefig

Spec == Init /\ [][Next]_vars

\* ------------------------------------------------------ claim vocabulary
GenotypeSet == {"hom_ref", "het", "hom_alt"}

\* The script holds a dataset (read_data returned).
HasData == allele_counts # "None"

\* Every record carries one of the three recognised genotypes.
Valid(c) == \A k \in 1..Len(c) : c[k].genotype \in GenotypeSet

Unrecognised(c) == {k \in 1..Len(c) : c[k].genotype \notin GenotypeSet}

Terminated == pc \in {"done", "failed"}

\* The grouping statement of create_plot has run.
AfterGroup == figure /\ pc \notin {"figure", "group"}

\* The per-genotype loop has run to its end.
LoopDone == AfterGroup /\ pc # "loop" /\ failed_at # "colour_lookup"

AllCounts(c) ==
    {c[k].allele_1_count : k \in 1..Len(c)} \cup {c[k].allele_2_count : k \in 1..Len(c)}

GlobalMax(c) == CHOOSE m \in AllCounts(c) : \A n \in AllCounts(c) : n <= m

\* Number of points of the scatter calls that use the given marker.
RECURSIVE PointCount(_, _)
PointCount(calls, marker) ==
    IF calls = <<>> THEN 0
    ELSE (IF Head(calls).marker = marker THEN Len(Head(calls).y) ELSE 0)
         + PointCount(Tail(calls), marker)

\* Number of samples in the buckets of the categories before index idx.
RECURSIVE BucketOffset(_)
BucketOffset(idx) ==
    IF idx = 0 THEN 0
    ELSE BucketOffset(idx - 1) + Len(data_by_genotype[GENOTYPES[idx]])

\* ------------------------------------------------------------------ claims

\* C1: for every non-empty valid dataset create_plot completes and sets the
\* y-axis limits to (0, M + 10), M being the maximum over all samples of both
\* allele_1_count and allele_2_count.
C1_YlimIsGlobalMaxPlusTen ==
    (HasData /\ Terminated /\ counts # <<>> /\ Valid(counts))
        => (returned /\ ylim = <<0, GlobalMax(counts) + 10>>)

\* C2: grouping yields exactly the three buckets hom_ref, het, hom_alt; each
\* bucket is the subsequence, in dataset order, of the samples of that
\* genotype; every sample is in exactly one bucket, the one of its genotype.
C2_StablePartition ==
    (HasData /\ AfterGroup /\ Valid(counts)) =>
        /\ DOMAIN data_by_genotype = GenotypeSet
        /\ \A g \in GenotypeSet :
              LET b == data_by_genotype[g] IN
              /\ \A k \in 1..Len(b) :
                    /\ b[k].genotype = g
                    /\ b[k].sample \in 1..Len(counts)
                    /\ counts[b[k].sample] = b[k]
              /\ \A k, l \in 1..Len(b) : k < l => b[k].sample < b[l].sample
              /\ \A s \in 1..Len(counts) :
                    counts[s].genotype = g => \E k \in 1..Len(b) : b[k] = counts[s]
        /\ \A s \in 1..Len(counts) :
              Cardinality({g \in GenotypeSet :
                             \E k \in 1..Len(data_by_genotype[g]) :
                                data_by_genotype[g][k].sample = s}) = 1

C2_Witness ==
    /\ HasData /\ AfterGroup /\ Valid(counts)
    /\ allele_counts = "json"
    /\ \E g \in GenotypeSet : Len(data_by_genotype[g]) >= 2

\* C3: on a valid dataset on which create_plot completes, the numbers of
\* allele-1 points, of allele-2 points and of connector segments are each
\* equal to the number of samples.
C3_OnePointPairPerSample ==
    (HasData /\ returned /\ Valid(counts)) =>
        /\ PointCount(scatters, "o") = Len(counts)
        /\ PointCount(scatters, "x") = Len(counts)
        /\ Len(lines) = Len(counts)

C3_Witness ==
    /\ HasData /\ returned /\ Valid(counts)
    /\ allele_counts = "json"
    /\ Len(counts) >= 2
    /\ Len(lines) >= 2

C5_EmptyFailsAtMax ==
    (HasData /\ counts = <<>>) =>
        /\ pc \notin {"ylim", "labels", "style", "savefig", "done"}
        /\ max_value = <<>> /\ ylim = <<>> /\ texts = <<>>
        /\ ~styled /\ ~returned /\ ~saved
        /\ pc = "failed" =>
              /\ error = "ValueError" /\ failed_at = "max"
              /\ i = 3
              /\ \A g \in GenotypeSet : data_by_genotype[g] = <<>>
              /\ Len(scatters) = 8
              /\ \A k \in 1..Len(scatters) : scatters[k].x = <<>> /\ scatters[k].y = <<>>
              /\ lines = <<>>
              /\ legend = <<"Allele 1", "Allele 2">>

C5_Witness ==
    /\ HasData /\ counts = <<>>
    /\ pc = "failed" /\ failed_at = "max"

\* C6: without an input path read_data returns the built-in six-sample
\* example and opens no file, and grouping it yields two samples in each
\* category; with a path the dataset is the content of that file.
C6_ReadData ==
    /\ (pc \notin {"parse_args", "read_data"} /\ failed_at # "read_data") => HasData
    /\ (HasData /\ input_json = "None") =>
          /\ allele_counts = "EXAMPLE_DATA"
          /\ ~opened
          /\ DOMAIN heap = {"EXAMPLE_DATA"}
          /\ Len(counts) = 6
          /\ counts = EXAMPLE_DATA
          /\ AfterGroup => \A g \in GenotypeSet : Len(data_by_genotype[g]) = 2
    /\ (HasData /\ input_json # "None") =>
          /\ allele_counts = "json"
          /\ opened
          /\ counts = file_content

C6_Witness ==
    /\ HasData /\ input_json = "None" /\ AfterGroup
    /\ \A g \in GenotypeSet : Len(data_by_genotype[g]) = 2

\* C7: allele_count_graph.png is written iff --save-plot was given and
\* create_plot returned; the write comes after reading and rendering; a run
\* without the flag or with a failed rendering writes no file.
C7_SavedIffFlagAndRendered ==
    /\ saved => (save_plot /\ returned /\ styled /\ HasData /\ pc = "done")
    /\ Terminated => (saved <=> (save_plot /\ returned))
    /\ pc = "failed" => ~saved
    /\ ~save_plot => ~saved

C7_Witness == saved /\ save_plot /\ returned /\ pc = "done"

\* C8: for sample s at position k of the bucket of category index idx there
\* is exactly one segment, from (2*idx - 0.5, s.allele_1_count) to
\* (2*idx + 0.5, s.allele_2_count) (x in half units: 4*idx - 1 and
\* 4*idx + 1); points and segment use the category's colour, with marker 'o'
\* for allele 1 and 'x' for allele 2.
C8_SegmentJoinsOwnCounts ==
    (HasData /\ returned /\ Valid(counts)) =>
        /\ Len(lines) = BucketOffset(3)
        /\ \A idx \in 0..2 :
              LET g == GENOTYPES[idx + 1]
                  b == data_by_genotype[g]
                  colour == CASE g = "hom_ref" -> "blue"
                              [] g = "het" -> "orange"
                              [] g = "hom_alt" -> "red"
                  p1 == scatters[2 * idx + 1]
                  p2 == scatters[2 * idx + 2]
              IN /\ p1.marker = "o" /\ p1.color = colour /\ Len(p1.x) = Len(b)
                 /\ Len(p1.y) = Len(b)
                 /\ p2.marker = "x" /\ p2.color = colour /\ Len(p2.x) = Len(b)
                 /\ Len(p2.y) = Len(b)
                 /\ \A k \in 1..Len(b) :
                       /\ lines[BucketOffset(idx) + k] =
                             [x |-> <<4 * idx - 1, 4 * idx + 1>>,
                              y |-> <<b[k].allele_1_count, b[k].allele_2_count>>,
                              color |-> colour]
                       /\ p1.x[k] = 4 * idx - 1 /\ p1.y[k] = b[k].allele_1_count
                       /\ p2.x[k] = 4 * idx + 1 /\ p2.y[k] = b[k].allele_2_count

C8_Witness ==
    /\ HasData /\ returned /\ Valid(counts)
    /\ \E g \in GenotypeSet :
          /\ g # "hom_ref"
          /\ Len(data_by_genotype[g]) = 2
          /\ data_by_genotype[g][1].allele_2_count # data_by_genotype[g][2].allele_2_count
          /\ data_by_genotype[g][1].allele_1_count # data_by_genotype[g][1].allele_2_count

\* C9: no step of create_plot changes the dataset it was given or the
\* built-in example it may alias: identifiers, order, genotypes and counts
\* stay as they were before the call.
InCreatePlot ==
    pc \in {"figure", "group", "loop", "legend", "max", "ylim", "labels", "style"}

C10_PointsInsideYlim ==
    (HasData /\ returned) =>
        /\ \A k \in 1..Len(scatters) : \A j \in 1..Len(scatters[k].y) :
              0 <= scatters[k].y[j] /\ scatters[k].y[j] < ylim[2]
        /\ \A k \in 1..Len(lines) : \A j \in 1..2 :
              0 <= lines[k].y[j] /\ lines[k].y[j] < ylim[2]

====
